---- MODULE Spec2Model ----
(***************************************************************************)
(* Model of the bulk transfer layer of cartoframes:                        *)
(*   ContextManager.copy_to / copy_from / has_table  (io/context.py)       *)
(* One ContextManager, used by one thread (the calls are synchronous and   *)
(* blocking), against a remote store whose answers are chosen by the       *)
(* environment.  Every remote interaction of a call is appended to `log`.  *)
(***************************************************************************)
EXTENDS Integers, Sequences, FiniteSets, TLC

VARIABLES
    pc,           \* position of the running call ("idle" before the first call)
    call,         \* the arguments of the running call
    schema,       \* local `schema` of the running call
    query,        \* local `query` of copy_to / has_table
    columns,      \* local `columns` (copy_to: remote fields; copy_from: dataframe columns)
    copy_query,   \* the projection query built by _get_copy_query
    retry_times,  \* local `retry_times` of the innermost _copy_to frame
    log,          \* remote operations issued by the running call, in order
    queries,      \* the long-running queries submitted by the running call
    tables,       \* remote store: names of the existing tables
    tables0,      \* remote store at the start of the running call
    dl,           \* download channel of the running call: "none", "open", "drained"
    up,           \* upload channel of the running call: "none", "open", "closed"
    result,       \* what the call returns: copy_to's table, has_table's answer
    outcome,      \* "none" while running, "ok", or the exception raised to the caller
    spent,        \* history: rate-limit retries made by the calls that have returned
    prev,         \* history: what the previous call of a transfer returned
    reader        \* a recursive_read call given the transport outcomes of the running call

vars == <<pc, call, schema, query, columns, copy_query, retry_times, log,
          queries, tables, tables0, dl, up, result, outcome, spent, prev, reader>>

----------------------------------------------------------------------------
(* Bounds of the model *)

\* largest retry budget a caller passes (covers DEFAULT_RETRY_TIMES)
MaxRetry == 3
\* largest backoff (seconds) a rate-limit signal carries
MaxBackoff == 2
\* largest limit a caller passes
MaxLimit == 1
\* largest number of rows a query has
MaxRows == 2

\* context.py:19
DEFAULT_RETRY_TIMES == 3

NoneVal == "None"

----------------------------------------------------------------------------
(* Names.  A name is a sequence of characters so that normalisation is      *)
(* computed, not assumed.                                                   *)

Upper == {"T", "A"}
Lower == {"a", "b", "c", "d", "e", "g", "h", "i", "m", "n", "o", "r", "t", "w"}
Digit == {"1"}
ToLower(c) == CASE c = "T" -> "t" [] c = "A" -> "a" [] OTHER -> c

\* utils/columns.normalize_name: lowercase, characters that are not legal in a
\* remote identifier replaced by "_"
normalize_name(name) ==
    [i \in 1..Len(name) |->
        IF name[i] \in Upper THEN ToLower(name[i])
        ELSE IF name[i] \in Lower \cup Digit \cup {"_"} THEN name[i]
        ELSE "_"]

\* context.py:173-177
_normalize_table_name(table_name) == normalize_name(table_name)

\* table names a caller passes
TableNames == { <<"t", "1">>, <<"T", "1">>, <<"a", " ", "b">> }
\* names a table of the remote store can have
RemoteNames == { normalize_name(n) : n \in TableNames }

----------------------------------------------------------------------------
(* Inputs and remote answers *)

\* the `source` argument of copy_to: a SQL query or a table name
Sources == { [sql |-> TRUE, text |-> <<"q">>] }
            \cup { [sql |-> FALSE, text |-> n] : n \in {<<"t", "1">>, <<"a", "_", "b">>} }
Schemas == { NoneVal, "public" }
NoLimit == [kind |-> "none", v |-> 0]
Limits == { NoLimit, [kind |-> "float", v |-> 1] }
          \cup { [kind |-> "int", v |-> n] : n \in -1..MaxLimit }
RetryBudgets == (0..MaxRetry) \cup {DEFAULT_RETRY_TIMES}
Backoffs == 1..MaxBackoff

\* field lists the remote store describes a query with
RemoteSchemas == { <<"cartodb_id", "the_geom", "the_geom_webmercator">>,
                   <<"the_geom_webmercator", "name">>,
                   <<"name">> }

NoQuery == [sql |-> FALSE, table |-> <<>>, schema |-> NoneVal]
NoCopyQuery == [columns |-> <<>>, query |-> NoQuery, limit |-> NoLimit]
NoResult == [columns |-> <<>>, index |-> NoneVal, index_name |-> NoneVal, nrows |-> 0,
             has |-> FALSE]
NoCall == [op |-> "none"]
NoPrev == [op |-> "none", df |-> NoResult, table |-> <<>>, created |-> <<>>, sent |-> 0]
NoRead == [pc |-> "idle", retry_times |-> 0, log |-> <<>>, outcome |-> "none"]

Entry(op, res, n) == [op |-> op, res |-> res, n |-> n, rows |-> <<>>]
Ops(o) == SelectSeq(log, LAMBDA e : e.op = o)
Count(o) == Len(Ops(o))

\* utils.is_sql_query
is_sql_query(source) == source.sql

\* utils/geom_utils.compute_query_from_table: SELECT * FROM "schema"."table"
compute_query_from_table(table_name, sch) ==
    [sql |-> FALSE, table |-> table_name, schema |-> sch]

\* the remote store can answer a query over a table only if the table exists
Answerable(q) == q.sql \/ q.table \in tables

----------------------------------------------------------------------------
(* copy_to *)

\* context.py:46: the call binds its arguments; retry_times defaults to
\* DEFAULT_RETRY_TIMES
Begin(c) ==
    /\ pc = "idle"
    /\ call' = c
    /\ tables0' = tables
    /\ UNCHANGED <<query, columns, copy_query, log, queries, tables, dl, up, result,
                   outcome>>
    /\ UNCHANGED <<spent, prev, reader>>

\* the call ends by raising e
Raise(e) ==
    /\ pc' = "done"
    /\ outcome' = e

\* the call ends by returning
Return(e) ==
    /\ pc' = "done"
    /\ outcome' = e

\* a budget that belongs to the context: what earlier calls used is gone
copy_to_budget_shared(rt, used) == IF rt > used THEN rt - used ELSE 0

\* context.py:46 and 51: the budget of the download is the call's own
\* retry_times argument, whatever earlier calls used
copy_to_budget(rt, used) == rt

\* context.py:46-47: copy_to is entered with arguments of the given sets
copy_to_call(sources, schemas, limits, budgets) ==
    \E source \in sources, sch \in schemas, limit \in limits,
       rt \in budgets, keep \in BOOLEAN :
        /\ Begin([op |-> "copy_to", source |-> source, schema |-> sch, limit |-> limit,
                  retry_times |-> rt, keep_the_geom_webmercator |-> keep])
        /\ schema' = sch
        /\ retry_times' = copy_to_budget(rt, spent)
        /\ pc' = "compute_query"

copy_to == copy_to_call(Sources, Schemas, Limits, RetryBudgets)

\* the downloads of a transfer: all rows, no retry budget
transfer_copy_to == copy_to_call(Sources, {NoneVal}, {NoLimit}, {0})

\* context.py:93-99 with get_schema (80-84) inlined
_compute_query ==
    /\ pc = "compute_query"
    /\ IF is_sql_query(call.source)
       THEN /\ query' = [sql |-> TRUE, table |-> call.source.text, schema |-> NoneVal]
            /\ pc' = "check_exists"
            /\ UNCHANGED <<schema, log, outcome>>
       ELSE IF schema # NoneVal
       THEN /\ query' = compute_query_from_table(call.source.text, schema)
            /\ pc' = "check_exists"
            /\ UNCHANGED <<schema, log, outcome>>
       ELSE \/ /\ log' = Append(log, Entry("get_schema", "ok", 0))
               /\ schema' = "public"
               /\ query' = compute_query_from_table(call.source.text, "public")
               /\ pc' = "check_exists"
               /\ UNCHANGED outcome
            \/ /\ log' = Append(log, Entry("get_schema", "error", 0))
               /\ Raise("CartoException")
               /\ UNCHANGED <<schema, query>>
    /\ UNCHANGED <<call, columns, copy_query, retry_times, queries, tables, tables0,
                   dl, up, result>>
    /\ UNCHANGED <<spent, prev, reader>>

\* a probe whose failure is swallowed (as has_table does)
_check_exists_swallow == "pass"

\* context.py:105-106: what _check_exists does with the probe's failure
_check_exists_except == "raise"

\* context.py:48 and 101-106
_check_exists ==
    /\ pc = "check_exists"
    /\ \/ /\ Answerable(query)
          /\ log' = Append(log, Entry("exists", "ok", 0))
          /\ pc' = "get_columns"
          /\ UNCHANGED outcome
       \/ /\ log' = Append(log, Entry("exists", "error", 0))
          /\ IF _check_exists_except = "raise"
             THEN Raise("ValueError(exists)")
             ELSE pc' = "get_columns" /\ UNCHANGED outcome
    /\ UNCHANGED <<call, schema, query, columns, copy_query, retry_times, queries,
                   tables, tables0, dl, up, result>>
    /\ UNCHANGED <<spent, prev, reader>>

\* context.py:49 and 108-111
_get_columns ==
    /\ pc = "get_columns"
    /\ \/ \E fields \in RemoteSchemas :
            /\ Answerable(query)
            /\ log' = Append(log, Entry("columns", "ok", 0))
            /\ columns' = fields
            /\ pc' = "get_copy_query"
            /\ UNCHANGED outcome
       \/ /\ log' = Append(log, Entry("columns", "error", 0))
          /\ Raise("CartoException")
          /\ UNCHANGED columns
    /\ UNCHANGED <<call, schema, query, copy_query, retry_times, queries,
                   tables, tables0, dl, up, result>>
    /\ UNCHANGED <<spent, prev, reader>>

\* a projection that drops the webmercator column whatever the caller asked
query_columns_never_keep(cols, keep) ==
    SelectSeq(cols, LAMBDA name : name # "the_geom_webmercator")

\* context.py:114-116
query_columns(cols, keep) ==
    SelectSeq(cols, LAMBDA name : name # "the_geom_webmercator" \/ keep)

\* a limit that is not validated
limit_ok_unchecked(limit) == TRUE

\* a limit check that refuses 0
limit_ok_positive(limit) == limit.kind = "none" \/ (limit.kind = "int" /\ limit.v > 0)

\* context.py:122-126
limit_ok(limit) == limit.kind = "none" \/ (limit.kind = "int" /\ limit.v >= 0)

\* context.py:50 and 113-128
_get_copy_query ==
    /\ pc = "get_copy_query"
    /\ IF limit_ok(call.limit)
       THEN /\ copy_query' = [columns |-> query_columns(columns, call.keep_the_geom_webmercator),
                              query |-> query, limit |-> call.limit]
            /\ pc' = "copy_to"
            /\ UNCHANGED outcome
       ELSE /\ Raise("ValueError(limit)")
            /\ UNCHANGED copy_query
    /\ UNCHANGED <<call, schema, query, columns, retry_times, log, queries,
                   tables, tables0, dl, up, result>>
    /\ UNCHANGED <<spent, prev, reader>>

\* the handler sleeping a fixed second instead of the signalled backoff
_copy_to_except_fixed_sleep(rt, retry_after) ==
    IF rt > 0
    THEN [again |-> TRUE, retry_times |-> rt - 1, slept |-> <<1>>]
    ELSE [again |-> FALSE, retry_times |-> rt, slept |-> <<>>]

\* the handler retrying once more than the budget allows
_copy_to_except_off_by_one(rt, retry_after) ==
    IF rt >= 0
    THEN [again |-> TRUE, retry_times |-> rt - 1, slept |-> <<retry_after>>]
    ELSE [again |-> FALSE, retry_times |-> rt, slept |-> <<>>]

\* context.py:135-145: the handler of a rate-limit signal carrying `retry_after`,
\* in a frame whose budget is `rt`: the sleeps it makes, the budget it passes
\* to the recursive call, and whether it makes that call
_copy_to_except(rt, retry_after) ==
    IF rt > 0
    THEN [again |-> TRUE, retry_times |-> rt - 1, slept |-> <<retry_after>>]
    ELSE [again |-> FALSE, retry_times |-> rt, slept |-> <<>>]

\* utils/columns.obtain_index_col: the cartodb_id column, if any
obtain_index_col(cols) ==
    IF \E i \in 1..Len(cols) : cols[i] = "cartodb_id" THEN "cartodb_id" ELSE NoneVal

\* a handler catching every error of the download channel
_copy_to_catches_all(kind) == TRUE

\* context.py:135: the handler catches CartoRateLimitException only
_copy_to_catches(kind) == kind = "rate_limit"

\* context.py:130-145: one attempt to open the download channel
_copy_to ==
    /\ pc = "copy_to"
    /\ \/ /\ log' = Append(log, Entry("copyto_stream", "ok", 0))
          /\ dl' = "open"
          /\ pc' = "read_csv"
          /\ UNCHANGED <<retry_times, outcome>>
       \/ \E kind \in {"rate_limit", "error"}, retry_after \in Backoffs :
            IF _copy_to_catches(kind)
            THEN LET h == _copy_to_except(retry_times, retry_after) IN
                 /\ log' = Append(log, Entry("copyto_stream", kind,
                                             IF kind = "rate_limit" THEN retry_after ELSE 0))
                           \o [i \in 1..Len(h.slept) |-> Entry("sleep", "ok", h.slept[i])]
                 /\ retry_times' = h.retry_times
                 /\ IF h.again
                    THEN pc' = "copy_to" /\ UNCHANGED outcome
                    ELSE Raise(IF kind = "rate_limit" THEN "CartoRateLimitException"
                               ELSE "CartoException")
                 /\ UNCHANGED dl
            ELSE /\ log' = Append(log, Entry("copyto_stream", kind, 0))
                 /\ Raise("CartoException")
                 /\ UNCHANGED <<retry_times, dl>>
    /\ UNCHANGED <<call, schema, query, columns, copy_query, queries,
                   tables, tables0, up, result>>
    /\ UNCHANGED <<spent, prev, reader>>

\* a handler of recursive_read that sleeps and retries without consuming the
\* budget
recursive_read_except_keeps_budget(rt, retry_after) ==
    IF rt > 0
    THEN [again |-> TRUE, retry_times |-> rt, slept |-> <<retry_after>>]
    ELSE [again |-> FALSE, retry_times |-> rt, slept |-> <<>>]

\* data/utils.py:177-187: the handler of a rate-limit signal carrying
\* `retry_after`, in a frame of recursive_read whose budget is `rt`
recursive_read_except(rt, retry_after) ==
    IF rt > 0
    THEN [again |-> TRUE, retry_times |-> rt - 1, slept |-> <<retry_after>>]
    ELSE [again |-> FALSE, retry_times |-> rt, slept |-> <<>>]

\* data/utils.py:177: the handler catches CartoRateLimitException only
recursive_read_catches(kind) == kind = "rate_limit"

\* the attempts a recursive_read call has made
ReaderAttempts == SelectSeq(reader.log, LAMBDA e : e.op = "copyto_stream")

\* data/utils.py:174-187: one frame of a recursive_read call that was given the
\* budget of the running copy_to call and whose transport answers its k-th
\* attempt as it answered the k-th attempt of that call
recursive_read ==
    /\ call.op = "copy_to"
    /\ reader.pc # "done"
    /\ Len(ReaderAttempts) < Len(Ops("copyto_stream"))
    /\ LET a == Ops("copyto_stream")[Len(ReaderAttempts) + 1]
           rt == IF reader.pc = "idle" THEN call.retry_times ELSE reader.retry_times IN
       IF a.res = "ok"
       THEN reader' = [pc |-> "done", retry_times |-> rt,
                       log |-> Append(reader.log, a), outcome |-> "stream"]
       ELSE IF recursive_read_catches(a.res)
       THEN LET h == recursive_read_except(rt, a.n) IN
            reader' = [pc |-> IF h.again THEN "reading" ELSE "done",
                       retry_times |-> h.retry_times,
                       log |-> Append(reader.log, a)
                               \o [i \in 1..Len(h.slept) |-> Entry("sleep", "ok", h.slept[i])],
                       outcome |-> IF h.again THEN "none" ELSE "CartoRateLimitException"]
       ELSE reader' = [pc |-> "done", retry_times |-> rt,
                       log |-> Append(reader.log, a), outcome |-> "CartoException"]
    /\ UNCHANGED <<pc, call, schema, query, columns, copy_query, retry_times, log,
                   queries, tables, tables0, dl, up, result, outcome, spent, prev>>

\* the rows the remote store streams for a projection: at most LIMIT of them
StreamRows(q) == { n \in 0..MaxRows : q.limit.kind = "int" => n <= q.limit.v }

\* context.py:147-160: the stream is parsed into a table whose columns are the
\* header's; df.index is set to the index column's values, the column stays in
\* df, and the index is left unnamed.  A stream read to its end is released by
\* the transport; nothing in _copy_to closes a stream that read_csv abandons
\* on a parse error.
_copy_to_read_csv ==
    /\ pc = "read_csv"
    /\ \/ \E n \in StreamRows(copy_query) :
            /\ log' = Append(log, Entry("read_csv", "ok", 0))
            /\ dl' = "drained"
            /\ result' = [columns |-> copy_query.columns,
                          index |-> obtain_index_col(columns),
                          index_name |-> NoneVal, nrows |-> n, has |-> FALSE]
            /\ Return("ok")
       \/ /\ log' = Append(log, Entry("read_csv", "error", 0))
          /\ Raise("ParserError")
          /\ UNCHANGED <<dl, result>>
    /\ UNCHANGED <<call, schema, query, columns, copy_query, retry_times, queries,
                   tables, tables0, up>>
    /\ UNCHANGED <<spent, prev, reader>>

----------------------------------------------------------------------------
(* Geometry codec (data/utils.py).  Text is a sequence of characters and    *)
(* binary data a sequence of byte values, so detection, prefix stripping    *)
(* and parsing are computed on the value itself.                            *)

\* largest coordinate of a point
MaxCoord == 1

\* Python values a geometry cell can hold
Str(s) == [t |-> "str", s |-> s]
Bytes(b) == [t |-> "bytes", b |-> b]
Shapely(g) == [t |-> "shapely", g |-> g]
PyNone == [t |-> "None"]
PyInt(n) == [t |-> "int", v |-> n]

\* shapely geometries: points, and the empty point
Point(x, y) == [kind |-> "Point", coords |-> <<x, y>>]
EmptyPoint == [kind |-> "Point", coords |-> <<>>]
Geoms == { Point(x, y) : x, y \in 0..MaxCoord } \cup { EmptyPoint }
\* bool(value): a shapely geometry is true when it is not empty, None is
\* false, a text or binary value is true when it is not empty
Truthy(v) == CASE v.t = "shapely" -> v.g.coords # <<>>
               [] v.t = "None" -> FALSE
               [] v.t = "int" -> v.v # 0
               [] v.t = "bytes" -> v.b # <<>>
               [] OTHER -> v.s # <<>>

\* the result of a call: returned value, or the exception it raised
Returned(v) == [raised |-> "none", val |-> v]
Raised(e) == [raised |-> e, val |-> PyNone]

DecChars == <<"0", "1", "2", "3", "4", "5", "6", "7", "8", "9">>
HexChars == DecChars \o <<"a", "b", "c", "d", "e", "f">>
IsDec(c) == \E i \in 1..Len(DecChars) : DecChars[i] = c
IsHex(c) == \/ \E i \in 1..Len(HexChars) : HexChars[i] = c
            \/ c \in {"A", "B", "C", "D", "E", "F"}
HexVal(c) == CASE c = "A" -> 10 [] c = "B" -> 11 [] c = "C" -> 12
               [] c = "D" -> 13 [] c = "E" -> 14 [] c = "F" -> 15
               [] OTHER -> (CHOOSE i \in 1..Len(HexChars) : HexChars[i] = c) - 1

\* ASCII code of a character, and back, for the characters binary hex data uses
Ord(c) == IF IsDec(c) THEN 48 + HexVal(c)
          ELSE IF c \in {"A", "B", "C", "D", "E", "F"} THEN 55 + HexVal(c)
          ELSE 87 + HexVal(c)
IsHexByte(b) == b \in (48..57) \cup (65..70) \cup (97..102)
Chr(b) == IF b \in 48..57 THEN HexChars[b - 47]
          ELSE IF b \in 65..70 THEN CASE b = 65 -> "A" [] b = 66 -> "B" [] b = 67 -> "C"
                                      [] b = 68 -> "D" [] b = 69 -> "E" [] OTHER -> "F"
          ELSE HexChars[b - 86]

\* binascii.hexlify / unhexlify on byte sequences
hexlify(b) ==
    [i \in 1..(2 * Len(b)) |->
        LET byte == b[(i + 1) \div 2] IN
        Ord(HexChars[(IF i % 2 = 1 THEN byte \div 16 ELSE byte % 16) + 1])]
unhexlify(b) ==
    IF Len(b) % 2 = 1 \/ \E i \in 1..Len(b) : ~IsHexByte(b[i])
    THEN Raised("binascii.Error")
    ELSE Returned([i \in 1..(Len(b) \div 2) |->
                     16 * HexVal(Chr(b[2 * i - 1])) + HexVal(Chr(b[2 * i]))])

\* shapely: geom.wkt
WktPoint == <<"P", "O", "I", "N", "T", " ">>
wkt_dumps(g) ==
    IF g.coords = <<>> THEN WktPoint \o <<"E", "M", "P", "T", "Y">>
    ELSE WktPoint \o <<"(", DecChars[g.coords[1] + 1], " ", DecChars[g.coords[2] + 1], ")">>

\* shapely.wkt.loads: text only, and only well-formed text
wkt_loads(v) ==
    IF v.t # "str" THEN Raised("TypeError")
    ELSE IF v.s = WktPoint \o <<"E", "M", "P", "T", "Y">> THEN Returned(Shapely(EmptyPoint))
    ELSE IF /\ Len(v.s) = 11
            /\ SubSeq(v.s, 1, 6) = WktPoint
            /\ v.s[7] = "(" /\ IsDec(v.s[8]) /\ v.s[9] = " " /\ IsDec(v.s[10])
            /\ v.s[11] = ")"
         THEN Returned(Shapely(Point(HexVal(v.s[8]), HexVal(v.s[10]))))
    ELSE Raised("WKTReadingError")

\* shapely: geom.wkb, reduced to byte order, geometry type and one byte per
\* coordinate
wkb_dumps(g) == <<1, 1>> \o g.coords

\* shapely.wkb.loads(data)
wkb_loads(v) ==
    IF v.t # "bytes" THEN Raised("TypeError")
    ELSE IF Len(v.b) = 4 /\ v.b[1] = 1 /\ v.b[2] = 1
         THEN Returned(Shapely(Point(v.b[3], v.b[4])))
    ELSE Raised("WKBReadingError")

\* the bytes of a text; a character that is no hex digit is a byte that is none
AsciiBytes(s) == [i \in 1..Len(s) |-> IF IsHex(s[i]) THEN Ord(s[i]) ELSE 0]

\* shapely.wkb.loads(data, hex=True)
wkb_loads_hex(v) ==
    IF v.t # "str" THEN Raised("TypeError")
    ELSE LET b == unhexlify(AsciiBytes(v.s)) IN
         IF b.raised # "none" THEN Raised("WKBReadingError")
         ELSE wkb_loads(Bytes(b.val))

\* how far the decimal digits starting at position i of s reach
RECURSIVE DigitsEnd(_, _)
DigitsEnd(s, i) == IF i <= Len(s) /\ IsDec(s[i]) THEN DigitsEnd(s, i + 1) ELSE i

\* `.*$` of Python's re without flags: no newline, except one that ends the text
DotStarEnd(s) == \A i \in 1..Len(s) : s[i] = "\n" => i = Len(s)
StripNewline(s) == IF Len(s) >= 1 /\ s[Len(s)] = "\n" THEN SubSeq(s, 1, Len(s) - 1) ELSE s

\* data/utils.py:157 and 170: re.match(r'^SRID=\d+;(.*)$', text)
SridPrefix == <<"S", "R", "I", "D", "=">>
SridMatch(s) ==
    LET e == DigitsEnd(s, 6)
        rest == SubSeq(s, e + 1, Len(s)) IN
    IF /\ Len(s) >= 7
       /\ SubSeq(s, 1, 5) = SridPrefix
       /\ e > 6 /\ e <= Len(s) /\ s[e] = ";"
       /\ DotStarEnd(rest)
    THEN [ok |-> TRUE, group1 |-> StripNewline(rest)]
    ELSE [ok |-> FALSE, group1 |-> <<>>]

\* data/utils.py:161: re.match(r'^[0-9a-fA-F]+$', geom)
HexMatch(s) ==
    LET h == StripNewline(s) IN
    Len(h) >= 1 /\ \A i \in 1..Len(h) : IsHex(h[i])

\* _remove_srid leaving the prefix in place
_remove_srid_keeps_prefix(text) ==
    IF text.t # "str" THEN Raised("TypeError") ELSE Returned(text)

\* data/utils.py:169-171
_remove_srid(text) ==
    IF text.t # "str" THEN Raised("TypeError")
    ELSE LET result_ == SridMatch(text.s) IN
         Returned(Str(IF result_.ok THEN result_.group1 ELSE text.s))

\* an extended tag written with a capital
detect_encoding_type_prefix_upper(matched) == IF matched THEN "E" ELSE ""

\* data/utils.py:158: prefix = 'e' if result else ''
detect_encoding_type_prefix(matched) == IF matched THEN "e" ELSE ""

\* the fallback to raw binary left out: the failed hex decoding is raised
detect_encoding_type_reraise == Raised("binascii.Error")

\* data/utils.py:153-154: except Exception: return 'wkb'
detect_encoding_type_except == Returned("wkb")

\* data/utils.py:134-166
detect_encoding_type(input_geom) ==
    IF input_geom.t = "shapely" THEN Returned("shapely")
    ELSE IF input_geom.t = "bytes"
    THEN IF unhexlify(input_geom.b).raised = "none"
         THEN Returned("wkb-hex")
         ELSE detect_encoding_type_except
    ELSE IF input_geom.t = "str"
    THEN LET result_ == SridMatch(input_geom.s)
             prefix == detect_encoding_type_prefix(result_.ok)
             geom == IF result_.ok THEN result_.group1 ELSE input_geom.s IN
         IF HexMatch(geom)
         THEN Returned(prefix \o "wkb-hex-ascii")
         ELSE Returned(prefix \o "wkt")
    ELSE Raised("ValueError(input geometry)")

\* the seven encoding tags of decode_geometry's dispatch table
EncodingTags == {"shapely", "wkb", "wkb-hex", "wkb-hex-ascii", "ewkb-hex-ascii",
                 "wkt", "ewkt"}

\* data/utils.py:112-131; the decorator (98-109) passes every result and
\* every exception other than ImportError through
decode_geometry(geom, enc_type) ==
    CASE enc_type = "shapely" -> Returned(geom)
      [] enc_type = "wkb" -> wkb_loads(geom)
      [] enc_type = "wkb-hex" ->
            IF geom.t \notin {"bytes", "str"} THEN Raised("TypeError")
            ELSE LET b == unhexlify(IF geom.t = "bytes" THEN geom.b
                                    ELSE AsciiBytes(geom.s)) IN
                 IF b.raised # "none" THEN b ELSE wkb_loads(Bytes(b.val))
      [] enc_type = "wkb-hex-ascii" -> wkb_loads_hex(geom)
      [] enc_type = "ewkb-hex-ascii" ->
            LET text == _remove_srid(geom) IN
            IF text.raised # "none" THEN text ELSE wkb_loads_hex(text.val)
      [] enc_type = "wkt" -> wkt_loads(geom)
      [] enc_type = "ewkt" ->
            LET text == _remove_srid(geom) IN
            IF text.raised # "none" THEN text ELSE wkt_loads(text.val)
      [] OTHER -> Raised("ValueError(encoding type)")

\* context.py:215: the upload text of a geometry
ewkt(g) == SridPrefix \o <<"4", "3", "2", "6", ";">> \o wkt_dumps(g)

----------------------------------------------------------------------------
(* Row encoding for upload (io/context.py _rows) *)

\* utils.PG_NULL, the reserved null token of the wire format
PG_NULL == <<"_", "_", "n", "u", "l", "l">>

\* utils.encode_row: the null token for None, the text form of the value
\* otherwise, quoted when it holds the delimiter or a newline
encode_row(val) ==
    CASE val.t = "None" -> PG_NULL
      [] val.t = "int" -> <<DecChars[val.v + 1]>>
      [] val.t = "str" ->
            IF \E i \in 1..Len(val.s) : val.s[i] \in {"|", "\n"}
            THEN <<"\"">> \o val.s \o <<"\"">>
            ELSE val.s
      [] OTHER -> <<"?">>

Range(seq) == { seq[i] : i \in 1..Len(seq) }
IndexOf(seq, x) == CHOOSE i \in 1..Len(seq) : seq[i] = x

NoCell == [has |-> FALSE, val |-> PyNone]
Cell(v) == [has |-> TRUE, val |-> v]

\* a column missing from the table never contributes, the index included
_rows_value_no_index(df, r, col) ==
    IF col \notin Range(df.columns) THEN NoCell
    ELSE Cell(df.data[r][IndexOf(df.columns, col)])

\* context.py:203-210: the value of column col in row r; none when the column
\* is neither among the table's columns nor its named index
_rows_value(df, r, col) ==
    IF col \notin Range(df.columns)
    THEN IF df.index_name # NoneVal /\ col = df.index_name
         THEN Cell(PyInt(df.index[r]))
         ELSE NoCell
    ELSE Cell(df.data[r][IndexOf(df.columns, col)])

\* context.py:213-217: the geometry value decoded and written as extended text
_rows_geometry(val, enc_type) ==
    LET geom == decode_geometry(val, enc_type) IN
    IF geom.raised # "none" THEN geom
    ELSE IF Truthy(geom.val)
         THEN IF geom.val.t = "shapely" THEN Returned(Str(ewkt(geom.val.g)))
              ELSE Raised("AttributeError")
         ELSE Returned(Str(<<>>))

\* context.py:201-219: the fields of row r from column i on
RECURSIVE row_data(_, _, _, _)
row_data(df, info, r, i) ==
    IF i > Len(info.columns) THEN Returned(<<>>)
    ELSE LET col == info.columns[i].dataframe
             cell == _rows_value(df, r, col) IN
         IF ~cell.has THEN row_data(df, info, r, i + 1)
         ELSE LET val == IF info.geom_column # NoneVal /\ col = info.geom_column
                         THEN _rows_geometry(cell.val, info.enc_type)
                         ELSE Returned(cell.val) IN
              IF val.raised # "none" THEN val
              ELSE LET rest == row_data(df, info, r, i + 1) IN
                   IF rest.raised # "none" THEN rest
                   ELSE Returned(<<encode_row(val.val)>> \o rest.val)

\* context.py:199-224: the rows yielded from row r on, each the sequence of
\* its fields (joined by "|" and ended by a newline on the wire); `rows` are
\* the rows yielded before an exception leaves the generator
RECURSIVE _rows_from(_, _, _, _)
_rows_from(df, info, r, yielded) ==
    IF r > Len(df.data) THEN [raised |-> "none", rows |-> yielded]
    ELSE LET csv_row == row_data(df, info, r, 1) IN
         IF csv_row.raised # "none" THEN [raised |-> csv_row.raised, rows |-> yielded]
         ELSE _rows_from(df, info, r + 1, Append(yielded, csv_row.val))

_rows(df, dataframe_columns_info) == _rows_from(df, dataframe_columns_info, 1, <<>>)

\* context.py:221-222: b'|'.join(row_data) + b'\n'
RECURSIVE csv_row(_)
csv_row(fields) ==
    IF fields = <<>> THEN <<"\n">>
    ELSE IF Len(fields) = 1 THEN fields[1] \o <<"\n">>
    ELSE fields[1] \o <<"|">> \o csv_row(Tail(fields))

----------------------------------------------------------------------------
(* copy_from *)

\* local tables a caller uploads
Dataframes ==
    { [columns |-> << [name |-> <<"A">>, dtype |-> "int64"],
                      [name |-> <<"b">>, dtype |-> "object"] >>,
       index_name |-> <<>>, nrows |-> 1],
      [columns |-> << [name |-> <<"b", " ", "1">>, dtype |-> "float64"] >>,
       index_name |-> <<"t">>, nrows |-> 0],
      [columns |-> << [name |-> <<"A">>, dtype |-> "int64"],
                      [name |-> <<"b">>, dtype |-> "object"] >>,
       index_name |-> <<"t">>, nrows |-> 2] }
IfExists == {"fail", "replace", "append"}

\* utils/columns: remote storage type of a local value type
dtype_to_pgtype(dtype) ==
    CASE dtype = "int64" -> "bigint"
      [] dtype = "float64" -> "double precision"
      [] dtype = "bool" -> "boolean"
      [] dtype = "datetime64" -> "timestamp"
      [] dtype = "geometry" -> "geometry(geometry, 4326)"
      [] OTHER -> "text"

\* utils/columns.DataframeColumnsInfo: one column per local column, in the
\* table's order, the named index appended
DataframeColumnsInfo(df) ==
    [i \in 1..Len(df.columns) |->
        [dataframe |-> df.columns[i].name,
         database |-> normalize_name(df.columns[i].name),
         database_type |-> dtype_to_pgtype(df.columns[i].dtype)]]
    \o (IF df.index_name # <<>>
        THEN << [dataframe |-> df.index_name,
                 database |-> normalize_name(df.index_name),
                 database_type |-> "bigint"] >>
        ELSE <<>>)

\* the cells of a local table: in every row one value per column, of the
\* column's type; the index values are the row numbers
CellOf(dtype, r) ==
    CASE dtype = "int64" -> PyInt(r)
      [] dtype = "float64" -> PyInt(0)
      [] dtype = "geometry" -> Shapely(Point(0, 1))
      [] OTHER -> IF r = 1 THEN Str(<<"a", "|">>) ELSE PyNone
Cells(cdf) ==
    [columns |-> [i \in 1..Len(cdf.columns) |-> cdf.columns[i].name],
     index_name |-> IF cdf.index_name = <<>> THEN NoneVal ELSE cdf.index_name,
     index |-> [r \in 1..cdf.nrows |-> r],
     data |-> [r \in 1..cdf.nrows |->
                 [i \in 1..Len(cdf.columns) |-> CellOf(cdf.columns[i].dtype, r)]]]

\* utils/columns.DataframeColumnsInfo: the geometry column is the column
\* named the_geom, its encoding the one detected on its first value
GeomColumn(cdf) ==
    IF \E i \in 1..Len(cdf.columns) :
          cdf.columns[i].name = <<"t", "h", "e", "_", "g", "e", "o", "m">>
    THEN <<"t", "h", "e", "_", "g", "e", "o", "m">>
    ELSE NoneVal
UploadInfo(cdf, cols) ==
    [columns |-> cols,
     geom_column |-> GeomColumn(cdf),
     enc_type |->
        IF GeomColumn(cdf) = NoneVal \/ cdf.nrows = 0 THEN NoneVal
        ELSE LET enc_type == detect_encoding_type(
                                 Cells(cdf).data[1][IndexOf(Cells(cdf).columns,
                                                            GeomColumn(cdf))]) IN
             IF enc_type.raised # "none" THEN NoneVal ELSE enc_type.val]

Stmt(kind, table_name, if_exists, cols, sch) ==
    [kind |-> kind, table |-> table_name, if_exists |-> if_exists, cols |-> cols,
     schema |-> sch]

\* context.py:180-183
_drop_table_query(table_name, if_exists) ==
    Stmt("DROP TABLE", table_name, if_exists, <<>>, NoneVal)

\* context.py:186-191
_create_table_query(table_name, cols) ==
    Stmt("CREATE TABLE", table_name, FALSE,
         [i \in 1..Len(cols) |-> <<cols[i].database, cols[i].database_type>>], NoneVal)

\* context.py:194-196
_cartodbfy_query(table_name, sch) ==
    Stmt("CDB_CartodbfyTable", table_name, FALSE, <<>>, sch)

StmtBegin == Stmt("BEGIN", <<>>, FALSE, <<>>, NoneVal)
StmtCommit == Stmt("COMMIT", <<>>, FALSE, <<>>, NoneVal)

\* the transaction without its DROP statement
_create_table_no_drop(table_name, cols, sch) ==
    << StmtBegin,
       _create_table_query(table_name, cols),
       _cartodbfy_query(table_name, sch),
       StmtCommit >>

\* the same statements sent without the transaction around them
_create_table_no_txn(table_name, cols, sch) ==
    << _drop_table_query(table_name, TRUE),
       _create_table_query(table_name, cols),
       _cartodbfy_query(table_name, sch) >>

\* context.py:86-90: the text of the one query _create_table submits
_create_table_text(table_name, cols, sch) ==
    << StmtBegin,
       _drop_table_query(table_name, TRUE),
       _create_table_query(table_name, cols),
       _cartodbfy_query(table_name, sch),
       StmtCommit >>

\* The remote store runs the statements of one submitted query in order.  A
\* statement fails when the store says so (failAt) or when it cannot apply;
\* a failure inside BEGIN ... COMMIT rolls back to the BEGIN, outside it the
\* statements already run stay applied.
RECURSIVE Run(_, _, _, _, _, _)
Run(stmts, i, cur, saved, intxn, failAt) ==
    IF i > Len(stmts)
    THEN [tables |-> IF intxn THEN saved ELSE cur, ok |-> TRUE]
    ELSE LET st == stmts[i]
             fails == \/ i = failAt
                      \/ st.kind = "DROP TABLE" /\ ~st.if_exists /\ st.table \notin cur
                      \/ st.kind = "CREATE TABLE" /\ st.table \in cur
                      \/ st.kind = "CDB_CartodbfyTable" /\ st.table \notin cur
         IN IF fails
            THEN [tables |-> IF intxn THEN saved ELSE cur, ok |-> FALSE]
            ELSE CASE st.kind = "BEGIN" -> Run(stmts, i + 1, cur, cur, TRUE, failAt)
                   [] st.kind = "COMMIT" -> Run(stmts, i + 1, cur, cur, FALSE, failAt)
                   [] st.kind = "DROP TABLE" ->
                        Run(stmts, i + 1, cur \ {st.table}, saved, intxn, failAt)
                   [] st.kind = "CREATE TABLE" ->
                        Run(stmts, i + 1, cur \cup {st.table}, saved, intxn, failAt)
                   [] OTHER -> Run(stmts, i + 1, cur, saved, intxn, failAt)

Execute(stmts, tbls, failAt) == Run(stmts, 1, tbls, tbls, FALSE, failAt)

\* context.py:53-57: copy_from is entered with a local table of the given set
copy_from_call(dataframes) ==
    \E cdf \in dataframes, table_name \in TableNames, if_exists \in IfExists :
        /\ Begin([op |-> "copy_from", cdf |-> cdf, table_name |-> table_name,
                  if_exists |-> if_exists])
        /\ pc' = "cf_get_schema"
        /\ UNCHANGED <<schema, retry_times>>

copy_from == copy_from_call(Dataframes)

\* the characters of a remote field name
FieldChars(f) ==
    CASE f = "cartodb_id" -> <<"c", "a", "r", "t", "o", "d", "b", "_", "i", "d">>
      [] f = "the_geom" -> <<"t", "h", "e", "_", "g", "e", "o", "m">>
      [] f = "the_geom_webmercator" ->
            <<"t", "h", "e", "_", "g", "e", "o", "m", "_", "w", "e", "b", "m", "e", "r",
              "c", "a", "t", "o", "r">>
      [] OTHER -> <<"n", "a", "m", "e">>

\* context.py:151-160: the local table copy_to returns: the columns of the
\* projection, the index without a name (df.index.name = None)
AsDataframe(df) ==
    [columns |-> [i \in 1..Len(df.columns) |->
                    [name |-> FieldChars(df.columns[i]),
                     dtype |-> CASE df.columns[i] = "cartodb_id" -> "int64"
                                 [] df.columns[i] \in {"the_geom", "the_geom_webmercator"} ->
                                      "geometry"
                                 [] OTHER -> "object"]],
     index_name |-> <<>>,
     nrows |-> df.nrows]

\* the upload of a transfer: the table the previous call downloaded
Downloaded == IF prev.op = "copy_to" THEN { AsDataframe(prev.df) } ELSE {}
transfer_copy_from == copy_from_call(Downloaded)

\* the local `table_name` of copy_from after line 56
cf_table_name == _normalize_table_name(call.table_name)

\* context.py:54-56 with get_schema (80-84) inlined
copy_from_get_schema ==
    /\ pc = "cf_get_schema"
    /\ columns' = DataframeColumnsInfo(call.cdf)
    /\ \/ /\ log' = Append(log, Entry("get_schema", "ok", 0))
          /\ schema' = "public"
          /\ pc' = "cf_branch"
          /\ UNCHANGED outcome
       \/ /\ log' = Append(log, Entry("get_schema", "error", 0))
          /\ Raise("CartoException")
          /\ UNCHANGED schema
    /\ UNCHANGED <<call, query, copy_query, retry_times, queries, tables,
                   tables0, dl, up, result>>
    /\ UNCHANGED <<spent, prev, reader>>

\* context.py:71: the parameters of has_table after self, none with a default
has_table_params == <<"table_name", "schema">>
\* context.py:58: the arguments copy_from passes to has_table
copy_from_has_table_args == <<"table_name">>
\* a call binds when every parameter without a default gets an argument
Binds(params, args) == Len(args) = Len(params)

\* context.py:58-69: the branch on if_exists.  `or` evaluates has_table only
\* when if_exists is not 'replace'; has_table (71-78) answers False whenever
\* its probe fails.
copy_from_branch ==
    /\ pc = "cf_branch"
    /\ IF call.if_exists = "replace"
       THEN pc' = "cf_create" /\ UNCHANGED <<log, outcome>>
       ELSE IF ~Binds(has_table_params, copy_from_has_table_args)
       THEN Raise("TypeError") /\ UNCHANGED log
       ELSE \/ /\ cf_table_name \in tables
               /\ log' = Append(log, Entry("exists", "ok", 0))
               /\ IF call.if_exists = "fail"
                  THEN Raise("Exception(already exists)")
                  ELSE pc' = "cf_copy_from" /\ UNCHANGED outcome
            \/ /\ log' = Append(log, Entry("exists", "error", 0))
               /\ pc' = "cf_create"
               /\ UNCHANGED outcome
    /\ UNCHANGED <<call, schema, query, columns, copy_query, retry_times, queries,
                   tables, tables0, dl, up, result>>
    /\ UNCHANGED <<spent, prev, reader>>

\* a submission that returns whether the job failed or not
execute_long_running_query_returns(ok) == FALSE

\* context.py:43-44 and 91: create_and_wait_for_completion returns when the job
\* is done and raises when it failed; _create_table has no handler around it
execute_long_running_query_raises(ok) == ~ok

\* context.py:60 and 86-91: one long-running query
_create_table ==
    /\ pc = "cf_create"
    /\ LET text == _create_table_text(cf_table_name, columns, schema) IN
       \E failAt \in 0..Len(text) :
         LET r == Execute(text, tables, failAt) IN
         /\ queries' = Append(queries, text)
         /\ tables' = r.tables
         /\ log' = Append(log, Entry("batch", IF r.ok THEN "ok" ELSE "error", 0))
         /\ IF execute_long_running_query_raises(r.ok)
            THEN Raise("CartoException")
            ELSE pc' = "cf_copy_from" /\ UNCHANGED outcome
    /\ UNCHANGED <<call, schema, query, columns, copy_query, retry_times,
                   tables0, dl, up, result>>
    /\ UNCHANGED <<spent, prev, reader>>

\* an upload that waits and tries again when it is rate limited, as _copy_to does
_copy_from_except_retrying(kind) ==
    [again |-> kind = "rate_limit",
     slept |-> IF kind = "rate_limit" THEN <<1>> ELSE <<>>]

\* context.py:162-171: what _copy_from does when copyfrom raises an error of
\* `kind`: nothing, there is no handler around the call
_copy_from_except(kind) == [again |-> FALSE, slept |-> <<>>]

\* the columns of the COPY statement named last to first
_copy_from_columns_reversed(cols) ==
    [i \in 1..Len(cols) |-> cols[Len(cols) + 1 - i].database]

\* context.py:167: ','.join(c.database for c in dataframe_columns_info.columns)
_copy_from_columns(cols) == [i \in 1..Len(cols) |-> cols[i].database]

\* context.py:69 and 162-171: the COPY ... FROM stdin statement is built and
\* copy_client.copyfrom is entered, which opens the upload channel
_copy_from ==
    /\ pc = "cf_copy_from"
    /\ copy_query' = [columns |-> _copy_from_columns(columns),
                      query |-> [sql |-> FALSE, table |-> cf_table_name, schema |-> NoneVal],
                      limit |-> NoLimit]
    /\ log' = Append(log, Entry("copyfrom", "open", 0))
    /\ up' = "open"
    /\ pc' = "cf_stream"
    /\ UNCHANGED <<call, schema, query, columns, retry_times, queries, tables,
                   tables0, dl, result, outcome>>
    /\ UNCHANGED <<spent, prev, reader>>

\* context.py:169-171: copy_client.copyfrom consumes the rows of _rows and
\* returns or raises; an exception of _rows leaves through it; the channel
\* lives inside that one client call
_copy_from_stream ==
    /\ pc = "cf_stream"
    /\ up' = "closed"
    /\ \/ /\ cf_table_name \in tables
          /\ \E data \in { _rows(Cells(call.cdf), UploadInfo(call.cdf, columns)) } :
             /\ log' = Append(log,
                          [Entry("copyfrom_end",
                                 IF data.raised = "none" THEN "ok" ELSE "error",
                                 Len(data.rows))
                             EXCEPT !.rows = [r \in 1..Len(data.rows) |->
                                                csv_row(data.rows[r])]])
             /\ IF data.raised = "none" THEN Return("ok") ELSE Raise(data.raised)
       \/ \E kind \in {"rate_limit", "error"}, retry_after \in {1} :
            LET h == _copy_from_except(kind) IN
            /\ log' = Append(log, Entry("copyfrom_end", kind, retry_after))
                      \o [i \in 1..Len(h.slept) |-> Entry("sleep", "ok", retry_after)]
            /\ IF h.again
               THEN pc' = "cf_copy_from" /\ UNCHANGED outcome
               ELSE Raise(IF kind = "rate_limit" THEN "CartoRateLimitException"
                          ELSE "CartoException")
    /\ UNCHANGED <<call, schema, query, columns, copy_query, retry_times, queries,
                   tables, tables0, dl, result>>
    /\ UNCHANGED <<spent, prev, reader>>

----------------------------------------------------------------------------
(* has_table, called by the user of the context *)

\* context.py:71
has_table ==
    \E tn \in RemoteNames, sch \in Schemas :
        /\ Begin([op |-> "has_table", table_name |-> tn, schema |-> sch])
        /\ schema' = sch
        /\ pc' = "ht_get_schema"
        /\ UNCHANGED retry_times

\* context.py:72-73 with get_schema (80-84) inlined
has_table_get_schema ==
    /\ pc = "ht_get_schema"
    /\ IF schema # NoneVal
       THEN /\ query' = compute_query_from_table(call.table_name, schema)
            /\ pc' = "ht_check_exists"
            /\ UNCHANGED <<schema, log, outcome>>
       ELSE \/ /\ log' = Append(log, Entry("get_schema", "ok", 0))
               /\ schema' = "public"
               /\ query' = compute_query_from_table(call.table_name, "public")
               /\ pc' = "ht_check_exists"
               /\ UNCHANGED outcome
            \/ /\ log' = Append(log, Entry("get_schema", "error", 0))
               /\ Raise("CartoException")
               /\ UNCHANGED <<schema, query>>
    /\ UNCHANGED <<call, columns, copy_query, retry_times, queries, tables, tables0,
                   dl, up, result>>
    /\ UNCHANGED <<spent, prev, reader>>

\* context.py:74-78
has_table_check_exists ==
    /\ pc = "ht_check_exists"
    /\ \/ /\ Answerable(query)
          /\ log' = Append(log, Entry("exists", "ok", 0))
          /\ result' = [NoResult EXCEPT !.has = TRUE]
       \/ /\ log' = Append(log, Entry("exists", "error", 0))
          /\ result' = [NoResult EXCEPT !.has = FALSE]
    /\ Return("ok")
    /\ UNCHANGED <<call, schema, query, columns, copy_query, retry_times, queries,
                   tables, tables0, dl, up>>
    /\ UNCHANGED <<spent, prev, reader>>

----------------------------------------------------------------------------
\* The caller has the result or the exception; the call's session is discarded
\* and the context is ready for the next call.  The remote store stays as it is.
Forget ==
    /\ pc = "done"
    /\ pc' = "idle"
    /\ call' = NoCall
    /\ schema' = NoneVal
    /\ query' = NoQuery
    /\ columns' = <<>>
    /\ copy_query' = NoCopyQuery
    /\ retry_times' = DEFAULT_RETRY_TIMES
    /\ log' = <<>>
    /\ queries' = <<>>
    /\ tables0' = tables
    /\ dl' = "none"
    /\ up' = "none"
    /\ result' = NoResult
    /\ outcome' = "none"
    /\ UNCHANGED tables

\* the same step, with the recursive_read call that was given the outcomes of
\* the call forgotten too
discard_reader ==
    /\ Forget
    /\ reader' = NoRead
    /\ UNCHANGED <<spent, prev>>

discard ==
    /\ Forget
    /\ UNCHANGED <<spent, prev, reader>>

\* the same step, with the retries the call made added to the history
discard_recording ==
    /\ Forget
    /\ spent' = IF spent + Count("sleep") > MaxRetry THEN MaxRetry
                ELSE spent + Count("sleep")
    /\ UNCHANGED <<prev, reader>>

\* the same step, with what the call returned kept for the next call of a
\* transfer: the table a download returned, and the table an upload of that
\* download created, its columns and the rows it sent
discard_keeping ==
    /\ Forget
    /\ prev' = CASE call.op = "copy_to" /\ outcome = "ok" ->
                      [NoPrev EXCEPT !.op = "copy_to", !.df = result]
                 [] /\ call.op = "copy_from" /\ outcome = "ok"
                    /\ prev.op = "copy_to" /\ call.cdf = AsDataframe(prev.df) ->
                      [op |-> "copy_from", df |-> prev.df, table |-> cf_table_name,
                       created |-> copy_query.columns, sent |-> log[Len(log)].n]
                 [] OTHER -> NoPrev
    /\ UNCHANGED <<spent, reader>>

Init ==
    /\ pc = "idle"
    /\ call = NoCall
    /\ schema = NoneVal
    /\ query = NoQuery
    /\ columns = <<>>
    /\ copy_query = NoCopyQuery
    /\ retry_times = DEFAULT_RETRY_TIMES
    /\ log = <<>>
    /\ queries = <<>>
    /\ tables \in SUBSET RemoteNames
    /\ tables0 = tables
    /\ dl = "none"
    /\ up = "none"
    /\ result = NoResult
    /\ outcome = "none"
    /\ spent = 0
    /\ prev = NoPrev
    /\ reader = NoRead

Next ==
    \/ copy_to
    \/ _compute_query
    \/ _check_exists
    \/ _get_columns
    \/ _get_copy_query
    \/ _copy_to
    \/ _copy_to_read_csv
    \/ copy_from
    \/ copy_from_get_schema
    \/ copy_from_branch
    \/ _create_table
    \/ _copy_from
    \/ _copy_from_stream
    \/ has_table
    \/ has_table_get_schema
    \/ has_table_check_exists
    \/ discard

Spec == Init /\ [][Next]_vars

\* Downloads only, one after the other on the same context, against a store
\* that has every table; the history of the retries made is kept.
InitBudget == Init /\ tables = RemoteNames

NextBudget ==
    \/ copy_to
    \/ _compute_query
    \/ _check_exists
    \/ _get_columns
    \/ _get_copy_query
    \/ _copy_to
    \/ _copy_to_read_csv
    \/ discard_recording

SpecBudget == InitBudget /\ [][NextBudget]_vars

\* Transfers: downloads and uploads of what was downloaded, one after the
\* other on the same context, against a store that has one table.
InitTransfer == Init /\ tables = { <<"a", "_", "b">> }

NextTransfer ==
    \/ transfer_copy_to
    \/ _compute_query
    \/ _check_exists
    \/ _get_columns
    \/ _get_copy_query
    \/ _copy_to
    \/ _copy_to_read_csv
    \/ transfer_copy_from
    \/ copy_from_get_schema
    \/ copy_from_branch
    \/ _create_table
    \/ _copy_from
    \/ _copy_from_stream
    \/ discard_keeping

SpecTransfer == InitTransfer /\ [][NextTransfer]_vars

\* Downloads, each with a recursive_read call at its side that is given the
\* same budget and the same transport outcomes.
retry_copy_to == copy_to_call(Sources, {NoneVal}, {NoLimit}, RetryBudgets)

InitRetry == Init /\ tables = RemoteNames

NextRetry ==
    \/ retry_copy_to
    \/ _compute_query
    \/ _check_exists
    \/ _get_columns
    \/ _get_copy_query
    \/ _copy_to
    \/ _copy_to_read_csv
    \/ recursive_read
    \/ discard_reader

SpecRetry == InitRetry /\ [][NextRetry]_vars

----------------------------------------------------------------------------
(* Properties *)

\* the positions in the log of the operations o
Positions(o) == SelectSeq([i \in 1..Len(log) |-> i], LAMBDA i : log[i].op = o)
Attempts == Ops("copyto_stream")
Sleeps == Ops("sleep")
Last == log[Len(log)]
Failed(o) == \E i \in 1..Len(log) : log[i].op = o /\ log[i].res # "ok" /\ log[i].res # "open"
Succeeded(o) == \E i \in 1..Len(log) : log[i].op = o /\ log[i].res = "ok"

\* the download channel signalled a rate limit on its first k attempts and then
\* gave a stream
RateLimitedThenOk(k) ==
    /\ Len(Attempts) = k + 1
    /\ \A i \in 1..k : Attempts[i].res = "rate_limit"
    /\ Attempts[k + 1].res = "ok"

\* C1: a copy_to call with budget R whose download channel is rate limited on
\* its first k <= R attempts and then gives a stream has opened the channel
\* k+1 times, has slept k times, the i-th sleep right after the i-th signal and
\* before the next attempt and lasting that signal's backoff, has consumed k
\* units of the budget, and returns the table once the stream is parsed.
C1_RetryThenSuccess ==
    call.op = "copy_to" =>
        \A k \in 0..call.retry_times :
            RateLimitedThenOk(k) =>
                /\ Count("copyto_stream") = k + 1
                /\ Len(Sleeps) = k
                /\ \A i \in 1..k :
                      /\ Sleeps[i].n = Attempts[i].n
                      /\ Positions("sleep")[i] = Positions("copyto_stream")[i] + 1
                      /\ Positions("copyto_stream")[i + 1] = Positions("sleep")[i] + 1
                /\ call.retry_times - retry_times = k
                /\ pc \in {"read_csv", "done"}
                /\ (pc = "done" /\ Succeeded("read_csv")) =>
                      (outcome = "ok" /\ result # NoResult)

C1_Witness ==
    /\ pc = "done"
    /\ call.op = "copy_to"
    /\ call.retry_times = 3
    /\ RateLimitedThenOk(2)
    /\ Sleeps = << Entry("sleep", "ok", 2), Entry("sleep", "ok", 1) >>
    /\ retry_times = 1
    /\ outcome = "ok"

AllRateLimited ==
    /\ Len(Attempts) >= 1
    /\ \A i \in 1..Len(Attempts) : Attempts[i].res = "rate_limit"

\* C2: a copy_to call with budget R whose download channel signals a rate limit
\* on every attempt goes on to the next attempt while it has made at most R,
\* and at the (R+1)-th it ends: R+1 attempts, R sleeps, the rate-limit error
\* raised; it never makes more than R+1 attempts and returns no table.
C2_AlwaysRateLimited ==
    (call.op = "copy_to" /\ AllRateLimited) =>
        /\ Len(Attempts) <= call.retry_times + 1
        /\ result = NoResult
        /\ outcome # "ok"
        /\ dl = "none"
        /\ Len(Attempts) <= call.retry_times =>
              (pc = "copy_to" /\ Len(Sleeps) = Len(Attempts) /\ outcome = "none")
        /\ Len(Attempts) = call.retry_times + 1 =>
              /\ pc = "done"
              /\ Len(Sleeps) = call.retry_times
              /\ outcome = "CartoRateLimitException"

C2_Witness ==
    /\ call.op = "copy_to"
    /\ call.retry_times = DEFAULT_RETRY_TIMES
    /\ AllRateLimited
    /\ Len(Attempts) = DEFAULT_RETRY_TIMES + 1
    /\ Len(Sleeps) = DEFAULT_RETRY_TIMES
    /\ pc = "done"
    /\ outcome = "CartoRateLimitException"

\* C3: copy_from with if_exists='fail' on a table that exists, once the schema
\* lookup has answered, raises the table-already-exists error, submits no
\* DROP/CREATE query, never opens the upload channel and leaves the remote
\* tables as they were.
C3_FailOnExistingTable ==
    (/\ call.op = "copy_from"
     /\ call.if_exists = "fail"
     /\ cf_table_name \in tables0
     /\ Succeeded("get_schema")
     /\ pc = "done") =>
        /\ outcome = "Exception(already exists)"
        /\ Len(queries) = 0
        /\ Count("batch") = 0
        /\ Count("copyfrom") = 0
        /\ up = "none"
        /\ tables = tables0

\* C4: copy_from with if_exists='append' on a table that exists, once the
\* schema lookup has answered, submits no DROP/CREATE/cartodbfy query and
\* streams the rows through one upload channel.
C4_AppendToExistingTable ==
    (/\ call.op = "copy_from"
     /\ call.if_exists = "append"
     /\ cf_table_name \in tables0
     /\ Succeeded("get_schema")
     /\ pc = "done") =>
        /\ Len(queries) = 0
        /\ Count("batch") = 0
        /\ Count("copyfrom") = 1
        /\ tables = tables0

\* C5: copy_from with if_exists='fail' or 'append' on a table that does not
\* exist, once the schema lookup has answered, submits the creation
\* transaction (once) and, when that succeeded, streams the rows; no error is
\* raised before the creation is submitted.
C5_CreateWhenAbsent ==
    (/\ call.op = "copy_from"
     /\ call.if_exists \in {"fail", "append"}
     /\ cf_table_name \notin tables0
     /\ Succeeded("get_schema")
     /\ pc = "done") =>
        /\ Count("batch") = 1
        /\ outcome \notin {"TypeError", "Exception(already exists)"}
        /\ Succeeded("batch") => Count("copyfrom") = 1

\* the creation transaction of the running copy_from call, written out
ExpectedTransaction ==
    LET t == normalize_name(call.table_name)
        cols == DataframeColumnsInfo(call.cdf)
    IN << Stmt("BEGIN", <<>>, FALSE, <<>>, NoneVal),
          Stmt("DROP TABLE", t, TRUE, <<>>, NoneVal),
          Stmt("CREATE TABLE", t, FALSE,
               [i \in 1..Len(cols) |-> <<cols[i].database, cols[i].database_type>>],
               NoneVal),
          Stmt("CDB_CartodbfyTable", t, FALSE, <<>>, "public"),
          Stmt("COMMIT", <<>>, FALSE, <<>>, NoneVal) >>

\* C6: a copy_from call with if_exists='replace' whose schema lookup has
\* answered submits the creation transaction exactly once, whether or not the
\* table exists: DROP TABLE IF EXISTS of the normalized name, then CREATE TABLE
\* with the resolved column types; the upload channel is opened only after the
\* transaction has completed.
C6_ReplaceAlwaysCreates ==
    (/\ call.op = "copy_from"
     /\ call.if_exists = "replace"
     /\ Succeeded("get_schema")
     /\ pc \in {"cf_copy_from", "cf_stream", "done"}) =>
        /\ Count("batch") = 1
        /\ queries = << ExpectedTransaction >>
        /\ outcome \notin {"TypeError", "Exception(already exists)"}
        /\ pc \in {"cf_copy_from", "cf_stream"} => Succeeded("batch")
        /\ Count("copyfrom") >= 1 =>
              /\ Succeeded("batch")
              /\ Positions("batch")[1] < Positions("copyfrom")[1]
        /\ (pc = "done" /\ Succeeded("batch")) => Count("copyfrom") = 1

C6_Witness ==
    /\ call.op = "copy_from"
    /\ call.if_exists = "replace"
    /\ cf_table_name \notin tables0
    /\ call.table_name # cf_table_name
    /\ pc = "done"
    /\ outcome = "ok"
    /\ queries = << ExpectedTransaction >>
    /\ Count("copyfrom") = 1

TransactionKinds(q) == [i \in 1..Len(q) |-> q[i].kind]

\* C7: every table creation is one long-running query BEGIN; DROP; CREATE;
\* cartodbfy; COMMIT over one table, and if a statement of it fails none takes
\* effect: the remote tables are those the call found, a table that existed
\* still exists.
C7_CreationIsAtomic ==
    call.op = "copy_from" =>
        /\ Len(queries) = Count("batch")
        /\ Len(queries) <= 1
        /\ \A i \in 1..Len(queries) :
              /\ TransactionKinds(queries[i]) =
                    <<"BEGIN", "DROP TABLE", "CREATE TABLE", "CDB_CartodbfyTable", "COMMIT">>
              /\ \A j \in 2..4 : queries[i][j].table = cf_table_name
        /\ Failed("batch") => (tables = tables0 /\ outcome = "CartoException")
        /\ Succeeded("batch") => cf_table_name \in tables

C7_Witness ==
    /\ call.op = "copy_from"
    /\ Failed("batch")
    /\ cf_table_name \in tables0
    /\ cf_table_name \in tables
    /\ pc = "done"

UploadFailed ==
    \E i \in 1..Len(log) : log[i].op = "copyfrom_end" /\ log[i].res # "ok"

\* C8: a copy_from call opens the upload channel at most once; when the upload
\* fails, rate limited or not, the call ends there: no sleep, no second
\* upload, the error raised to the caller as it is.
C8_UploadNotRetried ==
    call.op = "copy_from" =>
        /\ Count("copyfrom") <= 1
        /\ Count("sleep") = 0
        /\ UploadFailed =>
              /\ pc = "done"
              /\ Last.op = "copyfrom_end"
              /\ outcome = (IF Last.res = "rate_limit" THEN "CartoRateLimitException"
                            ELSE "CartoException")

C8_Witness ==
    /\ call.op = "copy_from"
    /\ UploadFailed
    /\ Last.res = "rate_limit"
    /\ pc = "done"
    /\ outcome = "CartoRateLimitException"

\* C9: once a call has returned or raised, no download or upload channel it
\* opened is still open.
C9_ChannelsClosed ==
    pc = "done" => (dl # "open" /\ up # "open")

ProbeFailed ==
    \E i \in 1..Len(log) : log[i].op = "exists" /\ log[i].res = "error"

\* C10: when the EXISTS probe of a copy_to call fails the call ends there with
\* the probe's error: one probe, no sleep, no schema query, no download
\* channel, whatever the retry budget.
C10_ProbeFailureIsFatal ==
    (call.op = "copy_to" /\ ProbeFailed) =>
        /\ pc = "done"
        /\ outcome = "ValueError(exists)"
        /\ Count("exists") = 1
        /\ Last.op = "exists"
        /\ Count("sleep") = 0
        /\ Count("columns") = 0
        /\ Count("copyto_stream") = 0
        /\ dl = "none"
        /\ retry_times = call.retry_times

C10_Witness ==
    /\ call.op = "copy_to"
    /\ ProbeFailed
    /\ call.retry_times = DEFAULT_RETRY_TIMES
    /\ pc = "done"
    /\ outcome = "ValueError(exists)"

LimitValid(limit) == limit.kind = "int" /\ limit.v >= 0
LimitGiven(limit) == limit.kind # "none"
\* the call has been through _get_copy_query and got its projection query
HasCopyQuery ==
    \/ pc \in {"copy_to", "read_csv"}
    \/ pc = "done" /\ Count("copyto_stream") >= 1

\* C11: a copy_to call given a limit goes past the limit check exactly when the
\* limit is an integer >= 0.  Otherwise it raises the invalid-argument error
\* and opens no download channel.  An accepted limit is the LIMIT of the
\* projection query; with limit 0 a call that returns returns a table of 0 rows.
C11_LimitValidation ==
    (call.op = "copy_to" /\ LimitGiven(call.limit)) =>
        /\ ~LimitValid(call.limit) =>
              /\ ~HasCopyQuery
              /\ Count("copyto_stream") = 0
              /\ dl = "none"
              /\ outcome # "ok"
              /\ (pc = "done" /\ Succeeded("columns")) => outcome = "ValueError(limit)"
        /\ LimitValid(call.limit) =>
              /\ outcome # "ValueError(limit)"
              /\ pc # "get_copy_query" => (Succeeded("columns") => HasCopyQuery)
              /\ HasCopyQuery => copy_query.limit = call.limit
              /\ (outcome = "ok" /\ call.limit.v = 0) => result.nrows = 0

C11_Witness ==
    /\ call.op = "copy_to"
    /\ call.limit = [kind |-> "int", v |-> 0]
    /\ pc = "done"
    /\ outcome = "ok"
    /\ copy_query.limit = [kind |-> "int", v |-> 0]
    /\ result.nrows = 0

\* C12: when the resolved columns hold an index column, the table copy_to
\* returns has that column as its row index and no longer has it among its
\* ordinary columns.
C12_IndexPromoted ==
    (/\ call.op = "copy_to"
     /\ pc = "done"
     /\ outcome = "ok"
     /\ obtain_index_col(columns) # NoneVal) =>
        /\ result.index = obtain_index_col(columns)
        /\ \A i \in 1..Len(result.columns) : result.columns[i] # result.index

RECURSIVE Without(_, _)
Without(seq, x) ==
    IF seq = <<>> THEN <<>>
    ELSE IF Head(seq) = x THEN Without(Tail(seq), x)
    ELSE <<Head(seq)>> \o Without(Tail(seq), x)

\* C13: the projection query of a copy_to call selects the resolved columns in
\* the remote field order, all of them when keep_the_geom_webmercator is set
\* and all but the_geom_webmercator otherwise, from the query of the call.
C13_ProjectionColumns ==
    (call.op = "copy_to" /\ HasCopyQuery) =>
        /\ copy_query.query = query
        /\ call.keep_the_geom_webmercator => copy_query.columns = columns
        /\ ~call.keep_the_geom_webmercator =>
              copy_query.columns = Without(columns, "the_geom_webmercator")

C13_Witness ==
    /\ call.op = "copy_to"
    /\ HasCopyQuery
    /\ call.keep_the_geom_webmercator
    /\ columns = <<"the_geom_webmercator", "name">>
    /\ copy_query.columns = columns

OtherErrors == SelectSeq(Attempts, LAMBDA e : e.res = "error")
RateLimits == SelectSeq(Attempts, LAMBDA e : e.res = "rate_limit")

\* C19: an error of the download channel that is not a rate-limit signal ends
\* the copy_to call where it occurs: it is the last remote operation, no sleep
\* follows it, it consumes no budget, and it is raised to the caller.
C19_OtherErrorsPropagate ==
    (call.op = "copy_to" /\ Len(OtherErrors) >= 1) =>
        /\ Len(OtherErrors) = 1
        /\ Last.op = "copyto_stream" /\ Last.res = "error"
        /\ pc = "done"
        /\ outcome = "CartoException"
        /\ Len(Sleeps) = Len(RateLimits)
        /\ call.retry_times - retry_times = Len(RateLimits)
        /\ dl = "none"

C19_Witness ==
    /\ call.op = "copy_to"
    /\ Len(OtherErrors) = 1
    /\ Len(RateLimits) = 1
    /\ retry_times = 2
    /\ pc = "done"
    /\ outcome = "CartoException"

----------------------------------------------------------------------------
(* The codec and the row encoder applied to bounded inputs: a geometry     *)
(* value is detected, decoded, written as the upload text and read back;   *)
(* a local table is encoded row by row.                                    *)

Points == Geoms \ { EmptyPoint }
\* the ASCII-hex text of a geometry's WKB
HexText(g) == LET h == hexlify(wkb_dumps(g)) IN [i \in 1..Len(h) |-> Chr(h[i])]

BytesValues ==
    { Bytes(wkb_dumps(g)) : g \in Points }
    \cup { Bytes(hexlify(wkb_dumps(g))) : g \in Points }
    \cup { Bytes(<<>>), Bytes(<<48>>), Bytes(<<48, 49>>), Bytes(<<71, 71>>) }
TextPrefixes ==
    { <<>>,
      <<"S", "R", "I", "D", "=", "4", "3", "2", "6", ";">>,
      <<"S", "R", "I", "D", "=", ";">>,
      <<"S", "R", "I", "D", "=", "1">>,
      <<"s", "r", "i", "d", "=", "1", ";">> }
TextBodies ==
    { <<>>, <<"\n">>, <<"0", "\n">>, <<"x">>, <<"a", "\n", "b">>, <<"A", "b">>,
      <<"0", "1", "0">> }
    \cup { HexText(g) : g \in Points }
    \cup { wkt_dumps(g) : g \in Geoms }
StrValues == { Str(p \o b) : p \in TextPrefixes, b \in TextBodies }
GeomValues == { Shapely(g) : g \in Geoms } \cup BytesValues \cup StrValues
              \cup { PyNone, PyInt(0) }

\* the column sets of an upload: the table's columns and its index, with or
\* without a column the table does not have
RowsColumns == { <<"name", "the_geom", "cartodb_id">>,
                 <<"name", "extra", "the_geom", "cartodb_id">> }
FirstGeomValues == { Shapely(Point(0, 1)), Str(wkt_dumps(Point(0, 1))),
                     Str(ewkt(Point(1, 0))), Bytes(wkb_dumps(Point(1, 1))) }
LaterGeomValues == { PyNone, Str(<<>>), Shapely(EmptyPoint), Str(<<"x">>),
                     Shapely(Point(1, 1)), Str(wkt_dumps(Point(1, 1))) }
RowFrames ==
    { [columns |-> <<"name", "the_geom">>, index_name |-> ix, index |-> <<1, 2>>,
       data |-> << <<Str(<<"a", "|">>), g1>>, <<PyNone, g2>> >>] :
         ix \in {NoneVal, "cartodb_id"}, g1 \in FirstGeomValues, g2 \in LaterGeomValues }

\* data/utils.py:87-90: the encoding of a geometry column is detected on its
\* first value
RowsInfo(df, cols, geom_column) ==
    [columns |-> [i \in 1..Len(cols) |-> [dataframe |-> cols[i], database |-> cols[i]]],
     geom_column |-> geom_column,
     enc_type |->
        IF geom_column = NoneVal THEN NoneVal
        ELSE LET enc_type == detect_encoding_type(
                                 df.data[1][IndexOf(df.columns, geom_column)]) IN
             IF enc_type.raised # "none" THEN NoneVal ELSE enc_type.val]

\* tags a caller of decode_geometry passes: the seven and others
CallerTags == EncodingTags \cup { "geojson", "WKT", NoneVal }

CodecCalls ==
    { [op |-> "geometry", value |-> v, origin |-> PyNone] : v \in GeomValues }
    \cup { [op |-> "decode_geometry", value |-> v, enc_type |-> enc_type] :
             v \in FirstGeomValues \cup LaterGeomValues, enc_type \in CallerTags }
    \cup { [op |-> "_rows", df |-> df, info |-> RowsInfo(df, cols, gc)] :
             df \in RowFrames, cols \in RowsColumns, gc \in {NoneVal, "the_geom"} }

NoGeometry == [enc_type |-> NoneVal, geom |-> PyNone]

CodecFrame == UNCHANGED <<schema, query, columns, copy_query, retry_times, log,
                          queries, tables, tables0, dl, up, spent, prev, reader>>

\* data/utils.py:89: detect_encoding_type is applied to the value
DetectEncoding ==
    /\ pc = "idle"
    /\ call.op = "geometry"
    /\ LET enc_type == detect_encoding_type(call.value) IN
       IF enc_type.raised # "none"
       THEN Raise(enc_type.raised) /\ UNCHANGED result
       ELSE /\ result' = [enc_type |-> enc_type.val, geom |-> PyNone]
            /\ pc' = "detected"
            /\ UNCHANGED outcome
    /\ UNCHANGED call
    /\ CodecFrame

\* data/utils.py:90: decode_geometry is applied with the detected tag
DecodeGeometry ==
    /\ pc = "detected"
    /\ LET geom == decode_geometry(call.value, result.enc_type) IN
       IF geom.raised # "none"
       THEN Raise(geom.raised) /\ UNCHANGED result
       ELSE /\ result' = [result EXCEPT !.geom = geom.val]
            /\ pc' = "decoded"
            /\ UNCHANGED outcome
    /\ UNCHANGED call
    /\ CodecFrame

\* data/utils.py:112-131: decode_geometry is called with a tag of the caller
DecodeWithTag ==
    /\ pc = "idle"
    /\ call.op = "decode_geometry"
    /\ LET geom == decode_geometry(call.value, call.enc_type) IN
       /\ result' = [enc_type |-> call.enc_type, geom |-> geom.val]
       /\ IF geom.raised # "none" THEN Raise(geom.raised) ELSE Return("ok")
    /\ UNCHANGED call
    /\ CodecFrame

\* context.py:213-217: the decoded geometry is written as the upload text,
\* which is the value the codec sees next
EncodeGeometry ==
    /\ pc = "decoded"
    /\ call.origin = PyNone
    /\ result.geom.t = "shapely"
    /\ call' = [op |-> "geometry",
                value |-> _rows_geometry(result.geom, "shapely").val,
                origin |-> result.geom]
    /\ result' = NoGeometry
    /\ pc' = "idle"
    /\ UNCHANGED outcome
    /\ CodecFrame

\* context.py:169: the rows of the table are encoded
EncodeRows ==
    /\ pc = "idle"
    /\ call.op = "_rows"
    /\ LET data == _rows(call.df, call.info) IN
       /\ result' = [rows |-> data.rows]
       /\ IF data.raised # "none" THEN Raise(data.raised) ELSE Return("ok")
    /\ UNCHANGED call
    /\ CodecFrame

InitCodec ==
    /\ pc = "idle"
    /\ call \in CodecCalls
    /\ schema = NoneVal
    /\ query = NoQuery
    /\ columns = <<>>
    /\ copy_query = NoCopyQuery
    /\ retry_times = DEFAULT_RETRY_TIMES
    /\ log = <<>>
    /\ queries = <<>>
    /\ tables = {}
    /\ tables0 = {}
    /\ dl = "none"
    /\ up = "none"
    /\ result = NoGeometry
    /\ outcome = "none"
    /\ spent = 0
    /\ prev = NoPrev
    /\ reader = NoRead

NextCodec ==
    \/ DetectEncoding
    \/ DecodeGeometry
    \/ DecodeWithTag
    \/ EncodeGeometry
    \/ EncodeRows

SpecCodec == InitCodec /\ [][NextCodec]_vars

----------------------------------------------------------------------------
(* Properties of the codec and the row encoder *)

\* C14: detection is total: a canonical geometry is tagged "shapely", and
\* every binary or text value, the empty ones included, is given one of the
\* seven encoding tags (binary one of the two binary tags, text one of the
\* four text tags); detection raises on none of them.
C14_DetectionTotal ==
    (call.op = "geometry" /\ pc # "idle") =>
        /\ call.value.t = "shapely" => result.enc_type = "shapely"
        /\ call.value.t = "bytes" => result.enc_type \in {"wkb", "wkb-hex"}
        /\ call.value.t = "str" =>
              result.enc_type \in {"wkb-hex-ascii", "ewkb-hex-ascii", "wkt", "ewkt"}
        /\ call.value.t \in {"shapely", "bytes", "str"} =>
              result.enc_type \in EncodingTags

\* raw binary that is no hex text falls back to "wkb", and decodes
C14_Witness ==
    /\ call.op = "geometry"
    /\ call.value = Bytes(wkb_dumps(Point(0, 1)))
    /\ pc = "decoded"
    /\ result.enc_type = "wkb"
    /\ result.geom = Shapely(Point(0, 1))

\* C15: the upload text "SRID=4326;<WKT of G>" of a geometry G is detected
\* as "ewkt", and decoding it with that tag succeeds and yields G.
C15_GeometryRoundTrip ==
    (/\ call.op = "geometry"
     /\ call.origin # PyNone
     /\ call.value = Str(ewkt(call.origin.g))) =>
        /\ pc # "idle" => result.enc_type = "ewkt"
        /\ pc # "done"
        /\ pc = "decoded" => result.geom = call.origin

C15_Witness ==
    /\ call.op = "geometry"
    /\ call.origin = Shapely(Point(1, 0))
    /\ call.value = Str(ewkt(Point(1, 0)))
    /\ pc = "decoded"
    /\ result.enc_type = "ewkt"
    /\ result.geom = Shapely(Point(1, 0))

\* the columns of the column set that contribute a field: the table's own
\* columns and its named index
Contributes(df, c) ==
    \/ c.dataframe \in Range(df.columns)
    \/ df.index_name # NoneVal /\ c.dataframe = df.index_name
Contributing(df, info) == SelectSeq(info.columns, LAMBDA c : Contributes(df, c))

\* what the geometry field of a value is to be: the extended text of the
\* decoded geometry, the empty text when the value is null or empty or cannot
\* be decoded
GeometryField(val, enc_type) ==
    LET geom == decode_geometry(val, enc_type) IN
    IF geom.raised = "none" /\ geom.val.t = "shapely" /\ Truthy(geom.val)
    THEN ewkt(geom.val.g)
    ELSE <<>>

\* C16: an upload whose column set flags a geometry column encodes every row:
\* the geometry field is "SRID=4326;<WKT>" of the decoded value, and the empty
\* text (not the null token) for a null or empty value or one that cannot be
\* decoded; no row stops the encoding.
C16_GeometryReencoded ==
    (/\ call.op = "_rows"
     /\ pc = "done"
     /\ call.info.geom_column # NoneVal) =>
        LET cols == Contributing(call.df, call.info)
            k == CHOOSE i \in 1..Len(cols) : cols[i].dataframe = call.info.geom_column IN
        /\ outcome = "ok"
        /\ Len(result.rows) = Len(call.df.data)
        /\ \A r \in 1..Len(result.rows) :
              result.rows[r][k] =
                  GeometryField(call.df.data[r][IndexOf(call.df.columns,
                                                         call.info.geom_column)],
                                call.info.enc_type)

\* C17: every encoded row has one field per contributing column, in the order
\* of the column set: the row's index value for the named index, the encoded
\* cell for an ordinary column; a column that is neither contributes nothing.
C17_RowFields ==
    (call.op = "_rows" /\ pc = "done") =>
        LET df == call.df
            cols == Contributing(df, call.info) IN
        \A r \in 1..Len(result.rows) :
            /\ Len(result.rows[r]) = Len(cols)
            /\ \A k \in 1..Len(cols) :
                  LET c == cols[k].dataframe IN
                  /\ c \notin Range(df.columns) =>
                        result.rows[r][k] = encode_row(PyInt(df.index[r]))
                  /\ (c \in Range(df.columns) /\ c # call.info.geom_column) =>
                        result.rows[r][k] = encode_row(df.data[r][IndexOf(df.columns, c)])

\* a table with a named index, encoded against a column set that holds a
\* column the table does not have
C17_Witness ==
    /\ call.op = "_rows"
    /\ pc = "done"
    /\ outcome = "ok"
    /\ call.df.index_name = "cartodb_id"
    /\ Len(call.info.columns) = 4
    /\ Len(result.rows) = 2
    /\ Len(result.rows[1]) = 3
    /\ result.rows[2][3] = <<"2">>

----------------------------------------------------------------------------
(* The retry budget across calls *)

\* C18: the budget of a download is the call's own: whatever earlier calls on
\* the context used, the budget left is the call's retry_times less the
\* retries this call made, a call that ends on the rate limit has made all
\* retry_times retries, and none ends on it earlier.
C18_BudgetPerCall ==
    call.op = "copy_to" =>
        /\ retry_times = call.retry_times - Len(Sleeps)
        /\ (pc = "done" /\ outcome = "CartoRateLimitException") =>
              Len(Sleeps) = call.retry_times

\* earlier calls used MaxRetry retries; this call makes MaxRetry more and
\* succeeds
C18_Witness ==
    /\ spent = MaxRetry
    /\ call.op = "copy_to"
    /\ call.retry_times = MaxRetry
    /\ Len(Sleeps) = MaxRetry
    /\ pc = "done"
    /\ outcome = "ok"

----------------------------------------------------------------------------
(* Transfer round trip *)

\* the column set of a table, the webmercator column left out
ColumnSet(names) == Range(names) \ { FieldChars("the_geom_webmercator") }
FieldSet(fields) == ColumnSet([i \in 1..Len(fields) |-> FieldChars(fields[i])])

\* the running call uploads the table the previous call downloaded, to a
\* table the store did not have
TransferUpload ==
    /\ call.op = "copy_from"
    /\ prev.op = "copy_to"
    /\ call.cdf = AsDataframe(prev.df)
    /\ cf_table_name \notin tables0

\* the running call downloads the table the previous call created from a
\* download, and the store describes it with the columns it was created with
\* (with or without the webmercator column) and streams the rows it was sent
TransferDownloadAgain ==
    /\ call.op = "copy_to"
    /\ prev.op = "copy_from"
    /\ ~call.source.sql /\ call.source.text = prev.table
    /\ pc = "done" /\ outcome = "ok"
    /\ FieldSet(columns) = ColumnSet(prev.created)
    /\ result.nrows = prev.sent

\* C20: a table of N rows that was downloaded is uploaded to a fresh table:
\* only the store can stop the upload, the table is created with the columns
\* of the download and N rows are sent; downloading that table again returns
\* N rows and the columns of the first download, the webmercator column
\* aside.
C20_TransferRoundTrip ==
    /\ (TransferUpload /\ pc = "done") =>
          /\ outcome \in {"ok", "CartoException", "CartoRateLimitException"}
          /\ outcome = "ok" =>
                /\ ColumnSet(copy_query.columns) = FieldSet(prev.df.columns)
                /\ Last.op = "copyfrom_end" /\ Last.n = prev.df.nrows
    /\ TransferDownloadAgain =>
          /\ result.nrows = prev.df.nrows
          /\ FieldSet(result.columns) = FieldSet(prev.df.columns)

\* with if_exists='replace' the round trip completes
C20_Completed ==
    /\ TransferDownloadAgain
    /\ prev.df.nrows = MaxRows
    /\ Len(prev.df.columns) >= 2

----------------------------------------------------------------------------
(* Detection order *)

\* the text starts with "SRID=", one or more digits and ";"
HasSridPrefix(s) ==
    LET e == DigitsEnd(s, 6) IN
    /\ Len(s) >= 7
    /\ SubSeq(s, 1, 5) = SridPrefix
    /\ e > 6 /\ e <= Len(s) /\ s[e] = ";"
AfterSridPrefix(s) == SubSeq(s, DigitsEnd(s, 6) + 1, Len(s))
HexRun(s) == Len(s) >= 1 /\ \A i \in 1..Len(s) : IsHex(s[i])

\* the tag the detection order gives a value
OrderedTag(v) ==
    CASE v.t = "shapely" -> "shapely"
      [] v.t = "bytes" ->
            IF Len(v.b) % 2 = 0 /\ \A i \in 1..Len(v.b) : IsHexByte(v.b[i])
            THEN "wkb-hex" ELSE "wkb"
      [] OTHER ->
            LET extended == HasSridPrefix(v.s)
                remainder == IF extended THEN AfterSridPrefix(v.s) ELSE v.s IN
            (IF extended THEN "e" ELSE "")
            \o (IF HexRun(remainder) THEN "wkb-hex-ascii" ELSE "wkt")

\* C21: a geometry object is "shapely"; a binary value is "wkb-hex" when it
\* hex-decodes and "wkb" when not; a text has its "SRID=<digits>;" prefix
\* stripped, which makes the tag extended, and is "wkb-hex-ascii" when the
\* remainder is a non-empty run of hex digits and "wkt" otherwise; raw binary
\* WKB is "wkb".
C21_DetectionOrder ==
    (/\ call.op = "geometry"
     /\ pc # "idle"
     /\ call.value.t \in {"shapely", "bytes", "str"}) =>
        /\ result.enc_type = OrderedTag(call.value)
        /\ (call.value.t = "bytes" /\ \E g \in Points : call.value.b = wkb_dumps(g)) =>
              result.enc_type = "wkb"

----------------------------------------------------------------------------
(* Detection and dispatch agree on the tags *)

UnsupportedEncoding == "ValueError(encoding type)"

\* C24: the tags detection returns are the seven tags decoding dispatches on:
\* every tag detected is one of the seven and each of the seven is detected
\* for some value, decoding with the detected tag never ends in the
\* unsupported-encoding error, and decoding with a tag of the caller ends in
\* that error exactly when the tag is none of the seven.
C24_TagsAgree ==
    /\ (call.op = "geometry" /\ pc # "idle" /\ result.enc_type # NoneVal) =>
          /\ result.enc_type \in EncodingTags
          /\ outcome # UnsupportedEncoding
    /\ \A tag \in EncodingTags :
          \E v \in GeomValues : detect_encoding_type(v) = Returned(tag)
    /\ (call.op = "decode_geometry" /\ pc = "done") =>
          (outcome = UnsupportedEncoding <=> call.enc_type \notin EncodingTags)

\* an extended hex text is detected and decoded with its tag
C24_Witness ==
    /\ call.op = "geometry"
    /\ call.value = Str(SridPrefix \o <<"4", "3", "2", "6", ";">> \o HexText(Point(1, 1)))
    /\ pc = "decoded"
    /\ result.enc_type = "ewkb-hex-ascii"
    /\ result.geom = Shapely(Point(1, 1))

----------------------------------------------------------------------------
(* Row records and the COPY statement *)

\* the fields of a record of the upload format: split at "|" outside quotes,
\* the final newline dropped
RECURSIVE CsvFields(_, _, _, _)
CsvFields(rec, i, quoted, cur) ==
    IF i > Len(rec) THEN <<cur>>
    ELSE IF rec[i] = "\"" THEN CsvFields(rec, i + 1, ~quoted, Append(cur, rec[i]))
    ELSE IF rec[i] = "|" /\ ~quoted THEN <<cur>> \o CsvFields(rec, i + 1, FALSE, <<>>)
    ELSE IF rec[i] = "\n" /\ ~quoted /\ i = Len(rec) THEN <<cur>>
    ELSE CsvFields(rec, i + 1, quoted, Append(cur, rec[i]))

\* the rows an upload streamed
Uploads == SelectSeq(log, LAMBDA e : e.op = "copyfrom_end")

\* the value row r of the local table has for the column with remote name c:
\* its cell, or the index value
UploadValue(cdf, r, c) ==
    LET df == Cells(cdf) IN
    IF \E i \in 1..Len(df.columns) : normalize_name(df.columns[i]) = c
    THEN df.data[r][CHOOSE i \in 1..Len(df.columns) : normalize_name(df.columns[i]) = c]
    ELSE PyInt(df.index[r])

\* C23: every record an upload streams has as many "|"-separated fields as
\* the COPY statement of the call names columns, and the k-th field is the
\* value of the k-th column named.
C23_FieldsMatchCopyColumns ==
    call.op = "copy_from" =>
        \A u \in 1..Len(Uploads) :
            \A r \in 1..Len(Uploads[u].rows) :
                LET fields == CsvFields(Uploads[u].rows[r], 1, FALSE, <<>>) IN
                /\ Len(fields) = Len(copy_query.columns)
                /\ \A k \in 1..Len(fields) :
                      (GeomColumn(call.cdf) = NoneVal
                       \/ copy_query.columns[k] # GeomColumn(call.cdf)) =>
                          fields[k] = encode_row(UploadValue(call.cdf, r,
                                                             copy_query.columns[k]))

\* a table with a named index and a value that holds the delimiter, uploaded
C23_Witness ==
    /\ call.op = "copy_from"
    /\ pc = "done" /\ outcome = "ok"
    /\ Len(Uploads) = 1
    /\ Len(Uploads[1].rows) >= 1
    /\ Len(copy_query.columns) = 3
    /\ call.cdf.index_name # <<>>

----------------------------------------------------------------------------
(* recursive_read and the retry part of _copy_to *)

\* what the retry part of the running copy_to call did: its attempts and sleeps
RetryLog == SelectSeq(log, LAMBDA e : e.op \in {"copyto_stream", "sleep"})

\* how the retry part of the running copy_to call ended: with the stream, with
\* the error raised, or "none" while it is running
RetryOutcome ==
    IF Succeeded("copyto_stream") THEN "stream"
    ELSE IF pc = "done" /\ Len(Attempts) > 0 THEN outcome
    ELSE "none"

\* C22: recursive_read, given the budget of a copy_to call and the transport
\* outcomes of its download attempts, makes the attempts and the sleeps that
\* the retry part of _copy_to makes, in the same order and with the same
\* durations, stops after the same attempt and ends in the same outcome.
C22_SameRetryProtocol ==
    call.op = "copy_to" =>
        /\ Len(reader.log) <= Len(RetryLog)
        /\ reader.log = SubSeq(RetryLog, 1, Len(reader.log))
        /\ reader.pc = "done" =>
              /\ reader.log = RetryLog
              /\ reader.outcome = RetryOutcome
        /\ (RetryOutcome # "none" /\ Len(ReaderAttempts) = Len(Attempts)) =>
              /\ reader.pc = "done"
              /\ reader.outcome = RetryOutcome

\* both were rate limited three times with a budget of two, slept twice for
\* different durations, and raised the rate-limit error
C22_Witness ==
    /\ call.op = "copy_to"
    /\ call.retry_times = 2
    /\ reader.pc = "done"
    /\ reader.outcome = "CartoRateLimitException"
    /\ outcome = "CartoRateLimitException"
    /\ Len(ReaderAttempts) = 3
    /\ Len(Sleeps) = 2
    /\ Sleeps[1].n # Sleeps[2].n

----------------------------------------------------------------------------
(* Order of the remote operations of a call *)

\* the remote operations of the log that are queries or channel openings
IsRemoteRequest(e) == e.op \in {"get_schema", "exists", "columns", "copyto_stream"}

\* C25: in a copy_to call the current-schema lookup is made at most once, first,
\* and exactly when the source is a table name and no schema was given; then
\* come the existence probe, the schema query and the download attempts, each
\* only after the one before succeeded; the download channel is opened only
\* with a valid limit, and once the stream is obtained no request follows.
C25_CopyToOrder ==
    call.op = "copy_to" =>
        LET g == Positions("get_schema")
            e == Positions("exists")
            c == Positions("columns")
            a == Positions("copyto_stream")
            lookup == ~call.source.sql /\ call.schema = NoneVal IN
        /\ Len(g) <= 1 /\ Len(e) <= 1 /\ Len(c) <= 1
        /\ Len(g) = 1 => lookup /\ g[1] = 1
        /\ Len(e) = 1 =>
              IF lookup THEN Len(g) = 1 /\ log[g[1]].res = "ok" /\ e[1] = 2
              ELSE Len(g) = 0 /\ e[1] = 1
        /\ Len(c) = 1 => Len(e) = 1 /\ log[e[1]].res = "ok" /\ c[1] = e[1] + 1
        /\ Len(a) >= 1 =>
              /\ Len(c) = 1 /\ log[c[1]].res = "ok" /\ a[1] > c[1]
              /\ call.limit.kind = "none" \/ (call.limit.kind = "int" /\ call.limit.v >= 0)
        /\ dl # "none" => Len(a) >= 1 /\ log[a[Len(a)]].res = "ok"
        /\ \A i \in 1..Len(log) :
              (log[i].op = "copyto_stream" /\ log[i].res = "ok") =>
                  \A j \in (i + 1)..Len(log) : ~IsRemoteRequest(log[j])
        /\ pc \in {"compute_query", "check_exists", "get_columns", "get_copy_query"} =>
              Len(a) = 0

\* a download by table name without a schema that was rate limited once, then
\* got its stream and returned the table
C25_Witness ==
    /\ call.op = "copy_to"
    /\ ~call.source.sql /\ call.schema = NoneVal
    /\ call.limit.kind = "int"
    /\ pc = "done" /\ outcome = "ok"
    /\ Len(log) = 7
    /\ [i \in 1..7 |-> log[i].op] =
          <<"get_schema", "exists", "columns", "copyto_stream", "sleep",
            "copyto_stream", "read_csv">>

\* the statements of the submitted queries that drop or create a table
TableDefinitions ==
    { <<q, i>> \in (1..Len(queries)) \X (1..5) :
        i <= Len(queries[q]) /\ queries[q][i].kind \in {"DROP TABLE", "CREATE TABLE"} }

\* C26: a copy_from call submits the creation transaction at most once; the
\* upload channel is opened only after the transaction, if submitted, has
\* completed and succeeded, so the table is there; after a failed transaction
\* the channel is never opened and nothing is streamed; and no DROP or CREATE
\* statement is issued other than in that transaction, so none after the
\* channel was opened.
C26_CreateBeforeUpload ==
    call.op = "copy_from" =>
        LET b == Positions("batch")
            u == Positions("copyfrom")
            s == Positions("copyfrom_end") IN
        /\ Len(b) <= 1 /\ Len(queries) = Len(b)
        /\ \A d \in TableDefinitions : d[1] = 1
        /\ Len(b) = 1 /\ log[b[1]].res # "ok" =>
              /\ Len(u) = 0 /\ Len(s) = 0
              /\ up = "none"
              /\ pc = "done" /\ outcome = "CartoException"
        /\ Len(u) >= 1 /\ Len(b) = 1 =>
              /\ log[b[1]].res = "ok"
              /\ b[1] < u[1]
              /\ cf_table_name \in tables
        /\ up # "none" <=> Len(u) >= 1
        /\ Len(s) >= 1 => Len(u) >= 1 /\ u[1] < s[1]

\* a replacing upload that created its table and then streamed rows
C26_Witness ==
    /\ call.op = "copy_from"
    /\ call.if_exists = "replace"
    /\ pc = "done" /\ outcome = "ok"
    /\ [i \in 1..Len(log) |-> log[i].op] = <<"get_schema", "batch", "copyfrom", "copyfrom_end">>
    /\ log[2].res = "ok"
    /\ log[4].n >= 1
    /\ Len(queries) = 1 /\ Len(queries[1]) = 5

====
